---- MODULE Spec2Model ----
(***************************************************************************)
(* Model of src/system_controller.py: the SystemController that receives   *)
(* command records from a realtime-database listener and runs local        *)
(* actions.  Time is the local wall clock in milliseconds since the epoch  *)
(* (the unit of the records' timestamp field).  The listener transport     *)
(* calls the callback from one thread, so one process_command call is in   *)
(* progress at a time; the clock may advance between any two of its steps  *)
(* and while an action body runs.                                          *)
(***************************************************************************)
EXTENDS Integers, Sequences, FiniteSets, TLC

VARIABLES clock, last_command_time, pc, data, fresh_now, now, entry_lct,
          calls, runs, todo, outcome, accepted_at, last_kind

vars == <<clock, last_command_time, pc, data, fresh_now, now, entry_lct,
          calls, runs, todo, outcome, accepted_at, last_kind>>

----------------------------------------------------------------------------
(* Program constants *)

COMMAND_COOLDOWN == 2

MS_PER_SECOND == 1000

MIN_INTERVAL_MS == 500

STARTUP_OFFSET_S == 10

CUSTOM_TIMEOUT == 10

(* Bounds of the model *)

\* wall-clock reading (ms since the epoch) at which the controller is built
StartClock == 3000

\* how far (ms) the clock runs after startup
Horizon == 1000

\* amounts (ms) by which the clock advances in one step
ClockSteps == {250}

\* ages (ms, at delivery) of the integer timestamps the producer sends;
\* a negative age is a producer clock ahead of the local one
Ages == {-100, 0, 1900, 2000}

\* shell command strings carried by records
Commands == {"echo hi"}

----------------------------------------------------------------------------
(* Values *)

\* Python's None: the value of data.get(k) for an absent key
None == "<None>"

\* a reading of datetime.now() that the current call has not taken
Unset == 0 - 1

\* the action registry built in process_command
handlers ==
    [play |-> "play_pause", pause |-> "play_pause", next |-> "next_track",
     previous |-> "previous_track", volume_up |-> "volume_up",
     volume_down |-> "volume_down", mute |-> "mute", lock |-> "lock_screen",
     screenshot |-> "screenshot", browser |-> "open_browser",
     spotify |-> "open_spotify", terminal |-> "open_terminal"]

\* a subprocess.run call: the command, whether it goes through the shell,
\* and its timeout in seconds (0: none)
Run(cmd, shell, timeout) == [cmd |-> cmd, shell |-> shell, timeout |-> timeout]

\* the subprocess.run calls each registry operation makes, in order
Body(op) ==
    CASE op = "play_pause"     -> <<Run("playerctl play-pause", FALSE, 0)>>
      [] op = "next_track"     -> <<Run("playerctl next", FALSE, 0)>>
      [] op = "previous_track" -> <<Run("playerctl previous", FALSE, 0)>>
      [] op = "volume_up"      -> <<Run("pactl set-sink-volume @DEFAULT_SINK@ +5%", FALSE, 0)>>
      [] op = "volume_down"    -> <<Run("pactl set-sink-volume @DEFAULT_SINK@ -5%", FALSE, 0)>>
      [] op = "mute"           -> <<Run("pactl set-sink-mute @DEFAULT_SINK@ toggle", FALSE, 0)>>
      [] op = "lock_screen"    -> <<Run("gnome-screensaver-command -l", FALSE, 0),
                                    Run("loginctl lock-session", FALSE, 0)>>
      [] op = "screenshot"     -> <<Run("gnome-screenshot -i", FALSE, 0)>>
      [] op = "open_browser"   -> <<Run("xdg-open https://google.com", FALSE, 0)>>
      [] op = "open_spotify"   -> <<Run("spotify", FALSE, 0)>>
      [] op = "open_terminal"  -> <<Run("gnome-terminal", FALSE, 0)>>

\* event.data as the listener receives it.  kind: "falsy" (None or empty),
\* "scalar" (a truthy value that is no mapping), "dict".  keys: the keys
\* present.  ts_text: the timestamp is a non-numeric string.
Event(kind, keys, action, ts_text, timestamp, command) ==
    [kind |-> kind, keys |-> keys, action |-> action, ts_text |-> ts_text,
     timestamp |-> timestamp, command |-> command]

NoEvent == Event("falsy", {}, None, FALSE, 0, None)

ActionNames == DOMAIN handlers \cup {"custom", "reboot"}

\* the timestamp fields a record can carry when the clock reads c:
\* <<"absent", 0>>, a non-numeric string <<"text", 0>>, or an integer
TimestampFields(c) ==
    {<<"absent", 0>>, <<"text", 0>>, <<"int", 0>>}
    \cup {<<"int", c - g>> : g \in Ages}

\* the events a notification can carry when the clock reads c
Events(c) ==
    {NoEvent, Event("scalar", {}, None, FALSE, 0, None)}
    \cup
    { Event("dict",
            (IF a = None THEN {} ELSE {"action"})
              \cup (IF t[1] = "absent" THEN {} ELSE {"timestamp"})
              \cup (IF cmd = None THEN {} ELSE {"command"}),
            a, t[1] = "text", t[2], cmd) :
        a \in ActionNames \cup {None},
        t \in TimestampFields(c),
        cmd \in Commands \cup {None} }

----------------------------------------------------------------------------
(* Pure parts of the code *)

\* `not data`: None, or a mapping without keys
Falsy(d) == d.kind = "falsy" \/ (d.kind = "dict" /\ d.keys = {})

\* is_command_fresh raises: timestamp / 1000 on a non-numeric string
FreshRaises(d) == "timestamp" \in d.keys /\ d.ts_text

\* variant: a command exactly COMMAND_COOLDOWN old still counts as fresh
IsCommandFreshInclusive(d, n) ==
    IF "timestamp" \notin d.keys \/ d.timestamp = 0
    THEN FALSE
    ELSE (n - d.timestamp) <= COMMAND_COOLDOWN * MS_PER_SECOND

\* is_command_fresh(timestamp) evaluated when datetime.now() reads n
IsCommandFresh(d, n) ==
    IF "timestamp" \notin d.keys \/ d.timestamp = 0
    THEN FALSE
    ELSE (n - d.timestamp) < COMMAND_COOLDOWN * MS_PER_SECOND

\* variant: the elapsed milliseconds are compared as if they were seconds
IntervalTooSoonUnits(n, lct) == (n - lct) * MS_PER_SECOND < MIN_INTERVAL_MS

\* the test of line 162 with now = n: the command comes too soon
IntervalTooSoon(n, lct) == (n - lct) < MIN_INTERVAL_MS

\* variant: line 164 is not executed before the handler is invoked
AcceptedAtDeferred(n, lct) == lct

\* last_command_time after line 164, on acceptance at now = n
AcceptedAt(n, lct) == n

\* variant: the assignment of line 164 precedes the test of line 162
RejectedAtRestart(n, lct) == n

\* last_command_time after the return of line 163, on rejection at now = n
RejectedAt(n, lct) == lct

\* variant: __init__ starts the interval at the startup time
InitialLastCommandTimeNow(c) == c

\* last_command_time as __init__ sets it when datetime.now() reads c
InitialLastCommandTime(c) == c - STARTUP_OFFSET_S * MS_PER_SECOND

\* variant: an unknown name falls back to a default operation
DispatchWithDefault(d) ==
    IF d.action \in DOMAIN handlers
    THEN [kind |-> "handler", op |-> handlers[d.action]]
    ELSE IF d.action = "custom" /\ "command" \in d.keys
    THEN [kind |-> "custom", op |-> "run_custom"]
    ELSE [kind |-> "handler", op |-> "play_pause"]

\* variant: a record that carries a command is run as a custom command
\* whatever its action
DispatchCommandFirst(d) ==
    IF "command" \in d.keys
    THEN [kind |-> "custom", op |-> "run_custom"]
    ELSE IF d.action \in DOMAIN handlers
    THEN [kind |-> "handler", op |-> handlers[d.action]]
    ELSE [kind |-> "unknown", op |-> None]

\* the branch lines 182-187 take: a registry operation, run_custom, or the
\* unknown-action report
Dispatch(d) ==
    IF d.action \in DOMAIN handlers
    THEN [kind |-> "handler", op |-> handlers[d.action]]
    ELSE IF d.action = "custom" /\ "command" \in d.keys
    THEN [kind |-> "custom", op |-> "run_custom"]
    ELSE [kind |-> "unknown", op |-> None]

\* variant: lines 150-158 also return for a record nothing would be run for
EntryCheckValidatesAction(d, n) ==
    IF FreshRaises(d) THEN "raise"
    ELSE IF ~IsCommandFresh(d, n) \/ Dispatch(d).kind = "unknown" THEN "return"
    ELSE "continue"

\* lines 150-158 for a mapping d when datetime.now() reads n:
\* "raise", "return" or "continue"
EntryCheck(d, n) ==
    IF FreshRaises(d) THEN "raise"
    ELSE IF ~IsCommandFresh(d, n) THEN "return"
    ELSE "continue"

\* variant: run_custom lets the exceptions of subprocess.run through
RunCustomReturnUncaught(result) ==
    IF result \in {"timeout", "oserror"} THEN "raised" ELSE "returned"

\* where run_custom leaves the caller for each result of subprocess.run:
\* every exception is caught and reported
RunCustomReturn(result) == "returned"

CustomResults == {"exit0", "nonzero", "timeout", "oserror"}

----------------------------------------------------------------------------
(* State machine *)

Init ==
    /\ clock = StartClock
    /\ last_command_time = InitialLastCommandTime(StartClock)
    /\ pc = "idle"
    /\ data = NoEvent
    /\ fresh_now = Unset
    /\ now = Unset
    /\ entry_lct = last_command_time
    /\ calls = <<>>
    /\ runs = <<>>
    /\ todo = <<>>
    /\ outcome = "none"
    /\ accepted_at = <<>>
    /\ last_kind = "none"

\* the wall clock advances
Tick ==
    \E d \in ClockSteps :
        /\ clock + d <= StartClock + Horizon
        /\ clock' = clock + d
        /\ UNCHANGED <<last_command_time, pc, data, fresh_now, now, entry_lct,
                       calls, runs, todo, outcome, accepted_at, last_kind>>

\* listener(event) and process_command up to line 158
Listener ==
    \E ev \in Events(clock) :
        /\ pc = "idle"
        /\ data' = ev
        /\ entry_lct' = last_command_time
        /\ now' = Unset
        /\ calls' = <<>>
        /\ runs' = <<>>
        /\ todo' = <<>>
        /\ IF Falsy(ev)
           THEN /\ pc' = "returned" /\ outcome' = "no_data" /\ fresh_now' = Unset
           ELSE IF ev.kind = "scalar"
           THEN /\ pc' = "raised" /\ outcome' = "raised" /\ fresh_now' = Unset
           ELSE /\ fresh_now' = clock
                /\ LET r == EntryCheck(ev, clock) IN
                   CASE r = "raise"    -> pc' = "raised" /\ outcome' = "raised"
                     [] r = "return"   -> pc' = "returned" /\ outcome' = "stale"
                     [] r = "continue" -> pc' = "interval" /\ outcome' = "running"
        /\ UNCHANGED <<clock, last_command_time, accepted_at, last_kind>>

\* lines 161-164
IntervalCheck ==
    /\ pc = "interval"
    /\ now' = clock
    /\ IF IntervalTooSoon(clock, last_command_time)
       THEN /\ last_command_time' = RejectedAt(clock, last_command_time)
            /\ pc' = "returned"
            /\ outcome' = "too_soon"
            /\ UNCHANGED <<accepted_at, last_kind>>
       ELSE /\ last_command_time' = AcceptedAt(clock, last_command_time)
            /\ accepted_at' = Append(accepted_at, clock)
            /\ last_kind' = Dispatch(data).kind
            /\ pc' = "route"
            /\ UNCHANGED outcome
    /\ UNCHANGED <<clock, data, fresh_now, entry_lct, calls, runs, todo>>

\* lines 166-187: the registry is built and the branch is taken
Route ==
    /\ pc = "route"
    /\ LET b == Dispatch(data) IN
       CASE b.kind = "handler" ->
              /\ calls' = Append(calls, b.op)
              /\ todo' = Body(b.op)
              /\ pc' = "body"
              /\ UNCHANGED outcome
         [] b.kind = "custom" ->
              /\ calls' = Append(calls, b.op)
              /\ pc' = "custom"
              /\ UNCHANGED <<todo, outcome>>
         [] b.kind = "unknown" ->
              /\ pc' = "returned"
              /\ outcome' = "unknown"
              /\ UNCHANGED <<calls, todo>>
    /\ UNCHANGED <<clock, last_command_time, data, fresh_now, now, entry_lct,
                   runs, accepted_at, last_kind>>

\* a registry operation's next subprocess.run: it returns (whatever the exit
\* status), or the program cannot be started and OSError propagates
RunTool ==
    \E result \in {"returned", "oserror"} :
        /\ pc = "body"
        /\ runs' = Append(runs, Head(todo))
        /\ IF result = "oserror"
           THEN /\ pc' = "raised" /\ outcome' = "raised" /\ todo' = <<>>
           ELSE /\ todo' = Tail(todo)
                /\ IF Tail(todo) = <<>>
                   THEN pc' = "returned" /\ outcome' = "done"
                   ELSE pc' = "body" /\ UNCHANGED outcome
        /\ UNCHANGED <<clock, last_command_time, data, fresh_now, now,
                       entry_lct, calls, accepted_at, last_kind>>

\* run_custom(data['command']); the time the command takes is the clock's
\* to advance while pc = "custom"
RunCustom ==
    \E result \in CustomResults :
        /\ pc = "custom"
        /\ runs' = Append(runs, Run(data.command, TRUE, CUSTOM_TIMEOUT))
        /\ pc' = RunCustomReturn(result)
        /\ outcome' = IF pc' = "raised" THEN "raised" ELSE result
        /\ UNCHANGED <<clock, last_command_time, data, fresh_now, now,
                       entry_lct, calls, todo, accepted_at, last_kind>>

\* the callback is over (it returned, or its exception went to the
\* transport): its locals are gone and the transport waits for the next event
NextEvent ==
    /\ pc \in {"returned", "raised"}
    /\ pc' = "idle"
    /\ data' = NoEvent
    /\ fresh_now' = Unset
    /\ now' = Unset
    /\ entry_lct' = last_command_time
    /\ calls' = <<>>
    /\ runs' = <<>>
    /\ todo' = <<>>
    /\ outcome' = "none"
    /\ UNCHANGED <<clock, last_command_time, accepted_at, last_kind>>

Next ==
    Tick \/ Listener \/ IntervalCheck \/ Route \/ RunTool \/ RunCustom
    \/ NextEvent

Spec == Init /\ [][Next]_vars

TypeOK ==
    /\ clock \in StartClock .. StartClock + Horizon
    /\ pc \in {"idle", "interval", "route", "body", "custom", "returned",
              "raised"}
    /\ outcome \in {"none", "no_data", "stale", "running", "too_soon", "done",
                    "unknown", "raised"} \cup CustomResults
    /\ last_command_time \in Int
    /\ Len(calls) <= 1

----------------------------------------------------------------------------
(* Properties *)

FreshWindowMs == COMMAND_COOLDOWN * MS_PER_SECOND

\* the record in hand carries an integer timestamp whose age, at the reading
\* of the clock the freshness check took, is below the freshness window
CarriesFreshTimestamp ==
    /\ data.kind = "dict"
    /\ "timestamp" \in data.keys
    /\ ~data.ts_text
    /\ fresh_now # Unset
    /\ fresh_now - data.timestamp < FreshWindowMs

\* the call in hand went past line 163
Admitted == now # Unset /\ outcome # "too_soon"

Last(seq) == seq[Len(seq)]

\* C1: a record gets past the freshness check, is admitted, or has anything
\* invoked for it, only if it carries a timestamp whose age is strictly
\* below the freshness window
C1_FreshnessRequired ==
    (Admitted \/ calls # <<>> \/ runs # <<>>
       \/ pc \in {"interval", "route", "body", "custom"})
    => CarriesFreshTimestamp

\* a record exactly as old as the window is dropped although the interval
\* check alone would have passed
C1_Witness ==
    /\ pc = "returned" /\ outcome = "stale"
    /\ "timestamp" \in data.keys
    /\ fresh_now - data.timestamp = FreshWindowMs
    /\ fresh_now - last_command_time >= MIN_INTERVAL_MS
    /\ calls = <<>> /\ runs = <<>>

\* C2: any two admission times are at least the minimum interval apart,
\* last_command_time is the latest of them, and a record whose interval check
\* is made less than the minimum interval after the last admission is
\* rejected with nothing invoked, whatever its action
C2_MinimumInterval ==
    /\ \A i, j \in 1 .. Len(accepted_at) :
          i < j => accepted_at[j] - accepted_at[i] >= MIN_INTERVAL_MS
    /\ accepted_at # <<>> => last_command_time = Last(accepted_at)
    /\ (pc = "returned" /\ now # Unset /\ now - entry_lct < MIN_INTERVAL_MS)
       => (outcome = "too_soon" /\ calls = <<>> /\ runs = <<>>)

\* volume_down is rejected in the interval opened by an earlier registry
\* command
C2_Witness ==
    /\ pc = "returned" /\ outcome = "too_soon"
    /\ data.action = "volume_down"
    /\ last_kind = "handler"
    /\ now - last_command_time > 0
    /\ now - last_command_time < MIN_INTERVAL_MS
    /\ calls = <<>>

\* C3: a record with a fresh timestamp is never dropped as stale, and it is
\* rejected by the interval check only when a command was accepted before it
\* less than the minimum interval ago; so the first command after startup
\* and a command at least the minimum interval after the last accepted one
\* are admitted
C3_EligibleAdmitted ==
    /\ outcome = "too_soon"
       => (accepted_at # <<>> /\ now - Last(accepted_at) < MIN_INTERVAL_MS)
    /\ (pc \in {"returned", "raised"} /\ CarriesFreshTimestamp)
       => (Admitted \/ outcome = "too_soon")

\* the first command arrives at startup and is admitted, and so is one
\* exactly the minimum interval later
C3_Witness ==
    /\ Len(accepted_at) = 2
    /\ accepted_at[1] = StartClock
    /\ accepted_at[2] = StartClock + MIN_INTERVAL_MS

\* C4: no exception leaves process_command
C4_NeverRaises == pc # "raised"

\* C5: an admitted custom record with a command calls run_custom once, which
\* runs that command through the shell with the timeout and returns
\* normally whatever subprocess.run does
C5_CustomNeverPropagates ==
    (Admitted /\ data.action = "custom" /\ "command" \in data.keys)
    => /\ pc # "raised"
       /\ pc = "custom" => (calls = <<"run_custom">> /\ runs = <<>>)
       /\ pc = "returned"
          => /\ calls = <<"run_custom">>
             /\ runs = <<Run(data.command, TRUE, CUSTOM_TIMEOUT)>>
             /\ outcome \in CustomResults

\* the command exited non-zero and process_command returned
C5_Witness ==
    /\ pc = "returned" /\ outcome = "nonzero"
    /\ data.action = "custom"
    /\ runs = <<Run("echo hi", TRUE, CUSTOM_TIMEOUT)>>

\* C6: for an admitted record whose action is no registry key and not
\* "custom", no operation is invoked, nothing is run, nothing is raised, and
\* the call ends with the unknown-action report
C6_UnknownActionInert ==
    (Admitted /\ data.action \notin DOMAIN handlers /\ data.action # "custom")
    => /\ calls = <<>>
       /\ runs = <<>>
       /\ pc # "raised"
       /\ pc = "returned" => outcome = "unknown"

\* a record without an action was admitted and reported as unknown
C6_Witness ==
    /\ pc = "returned" /\ outcome = "unknown"
    /\ "action" \notin data.keys
    /\ Admitted

\* C7: for an admitted record whose action is a registry key, the operation
\* bound to the key is the one call made, nothing goes through the shell,
\* and an operation that returns has made exactly its own subprocess calls
C7_RegistryOperationOnce ==
    (Admitted /\ data.action \in DOMAIN handlers
       /\ pc \in {"body", "returned", "raised"})
    => /\ calls = <<handlers[data.action]>>
       /\ \A k \in 1 .. Len(runs) : ~runs[k].shell
       /\ data.action = "play" => calls = <<"play_pause">>
       /\ outcome = "done" => runs = Body(handlers[data.action])

\* an admitted play record, carrying a command as well, ran play_pause once
C7_Witness ==
    /\ pc = "returned" /\ outcome = "done"
    /\ data.action = "play"
    /\ "command" \in data.keys
    /\ calls = <<"play_pause">>
    /\ Len(runs) = 1

\* C8: last_command_time changes only in the step that accepts a command,
\* which sets it to the clock's reading; every call that ends in a rejection
\* leaves it as it was when the call began
C8_WrittenOnlyOnAcceptance ==
    [][ /\ last_command_time' # last_command_time
           => (pc = "interval" /\ pc' = "route" /\ last_command_time' = clock)
        /\ (pc = "interval" /\ pc' = "route")
           => (last_command_time' = clock
               /\ last_command_time' # last_command_time)
        /\ outcome' \in {"no_data", "stale", "too_soon"}
           => last_command_time' = entry_lct' ]_vars

\* a command was rejected inside the interval, later than the last accepted
\* one, and last_command_time stayed
C8_Witness ==
    /\ pc = "returned" /\ outcome = "too_soon"
    /\ now > last_command_time
    /\ last_command_time = entry_lct

UnknownAction ==
    /\ data.action \notin DOMAIN handlers
    /\ ~(data.action = "custom" /\ "command" \in data.keys)

\* a fresh record with an unknown action, checked outside the interval, has
\* been admitted: last_command_time is its now
UnknownAdmitted ==
    (pc = "returned" /\ CarriesFreshTimestamp /\ UnknownAction
       /\ fresh_now - entry_lct >= MIN_INTERVAL_MS)
    => (outcome = "unknown" /\ last_command_time = now /\ now >= fresh_now)

\* C10: a fresh record with an unknown action that passes the interval check
\* is admitted, and the interval check of a registered command made less
\* than the minimum interval after such an admission rejects it, with
\* nothing invoked
C10_UnknownConsumesInterval ==
    [][ /\ UnknownAdmitted'
        /\ (pc = "interval" /\ now' # Unset /\ last_kind = "unknown"
              /\ data.action \in DOMAIN handlers
              /\ clock - last_command_time < MIN_INTERVAL_MS)
           => (pc' = "returned" /\ outcome' = "too_soon" /\ calls' = <<>>
               /\ runs' = <<>> /\ UNCHANGED last_command_time) ]_vars

\* a registered command was rejected in the interval opened by a record
\* with an unknown action
C10_Witness ==
    /\ pc = "returned" /\ outcome = "too_soon"
    /\ last_kind = "unknown"
    /\ data.action \in DOMAIN handlers
    /\ calls = <<>>
====
